---- MODULE Spec2Model ----
(***************************************************************************)
(* The system tray of apps/clawdis/src-tauri/src/lib.rs: the TrayState     *)
(* store (five mutexes), the menu presenter (format_tokens,                *)
(* build_tray_menu), create_tray, rebuild_tray_menu and the three update   *)
(* commands set_tray_status, set_tray_usage and set_tray_health.           *)
(*                                                                         *)
(* Strings of the model are ASCII: a glyph of the source is written as its *)
(* code point, "<U+2665>" for the heart of "♥ Healthy", and so on.         *)
(***************************************************************************)
EXTENDS Integers, Sequences, FiniteSets, TLC

VARIABLES
    tray,        \* TrayState.tray: the handle is stored (Some) or not (None)
    status,      \* TrayState.status
    usage,       \* TrayState.usage
    health,      \* TrayState.health
    latency,     \* TrayState.latency
    mutex,       \* for each of the five mutexes, the set of threads holding it
    shown,       \* the live tray icon: its menu and its tooltip
    setup,       \* position of the thread running create_tray
    pc,          \* position of each command thread
    req,         \* the command each thread runs and its argument
    snap,        \* the locals of rebuild_tray_menu of each thread
    ret,         \* outcome of the last command of each thread
    hist,        \* history: arguments passed, last writers, failures
    call,        \* a presenter function applied on its own: its argument
    out,         \* ... and its result
    ui           \* the main window, and what the tray's event handlers did

vars == <<tray, status, usage, health, latency, mutex, shown, setup, pc, req,
          snap, ret, hist, call, out, ui>>

storeVars == <<tray, status, usage, health, latency>>
threadVars == <<mutex, setup, pc, req, ret, hist>>

-----------------------------------------------------------------------------
(* Bounds of the model *)


\* number of update commands invoked in one run, by a frontend that does not
\* wait for a command to return before it invokes the next
MaxCalls == 2

\* number of update commands invoked in one run, by a frontend that awaits
\* each command
MaxAwaited == 3

\* format_tokens is applied to the first TokenSteps multiples of 50 and of
\* 50000, to the last TokenSteps multiples of 50 below a million, and to the
\* neighbours of each
TokenSteps == 40

\* number of update commands invoked in one run while the tray's event
\* handlers run, by a frontend that awaits each command
MaxEventCalls == 1

-----------------------------------------------------------------------------
(* Data *)

ConnectionStatus == {"Connected", "Connecting", "Disconnected", "Error"}

HealthStatus == {"Healthy", "Degraded", "Unhealthy", "Unknown"}

\* Option<u64>: None is the empty sequence, Some(ms) the sequence <<ms>>
None == << >>

Some(v) == <<v>>

TokenUsage(i, o, t) ==
    [input_tokens |-> i, output_tokens |-> o, total_tokens |-> t]

\* TokenUsage::default()
DefaultUsage == TokenUsage(0, 0, 0)

Thousand == 1000

Million == 1000000

-----------------------------------------------------------------------------
(* format_tokens *)

RECURSIVE Pow2Mod5(_)
\* 2^k mod 5
Pow2Mod5(k) ==
    IF k = 0 THEN 1 ELSE (2 * Pow2Mod5(k - 1)) % 5

RECURSIVE Log2Floor(_, _)
\* the exponent of the f64 n / unit, for n >= unit: the largest e with
\* unit * 2^e <= n
Log2Floor(n, unit) ==
    IF n < 2 * unit THEN 0 ELSE 1 + Log2Floor(n \div 2, unit)

\* `count as f64 / unit`, compared with the exact quotient n / unit when that
\* quotient lies exactly half way between two tenths (n = (2t+1) * unit / 20):
\* the f64 division rounds the quotient to 53 bits, to a value below it
\* ("below"), above it ("above") or to the quotient itself ("exact").
\* n / unit in units of the last mantissa bit is (2t+1) * 2^(50-e) / 5.
F64Quotient(n, unit) ==
    LET odd == n \div (unit \div 20)
        e == Log2Floor(n, unit)
        r == ((odd % 5) * Pow2Mod5((50 - e) % 4)) % 5
    IN  IF r = 0 THEN "exact" ELSE IF r < 3 THEN "below" ELSE "above"

\* Tenths with the bug of cutting the quotient off after one decimal
TenthsTruncated(n, unit) == n \div (unit \div 10)

\* the tenths shown by format!("{:.1}", count as f64 / unit): the f64 quotient
\* rounded to one decimal, to nearest, an exact tie to the even digit
Tenths(n, unit) ==
    LET tenth == unit \div 10
        t == n \div tenth
        r == n % tenth
        half == tenth \div 2
    IN  IF r < half THEN t
        ELSE IF r > half THEN t + 1
        ELSE CASE F64Quotient(n, unit) = "below" -> t
               [] F64Quotient(n, unit) = "above" -> t + 1
               [] OTHER -> IF t % 2 = 0 THEN t ELSE t + 1

\* format!("{:.1}", count as f64 / unit)
Fixed1(n, unit) ==
    LET t == Tenths(n, unit)
    IN  ToString(t \div 10) \o "." \o ToString(t % 10)

format_tokens(count) ==
    IF count >= Million THEN Fixed1(count, Million) \o "M"
    ELSE IF count >= Thousand THEN Fixed1(count, Thousand) \o "k"
    ELSE ToString(count)

-----------------------------------------------------------------------------
(* build_tray_menu and the tooltip of rebuild_tray_menu *)

StatusText(s) ==
    CASE s = "Connected" -> "<U+25CF> Connected"
      [] s = "Connecting" -> "<U+25CB> Connecting..."
      [] s = "Disconnected" -> "<U+25CB> Disconnected"
      [] s = "Error" -> "<U+2715> Connection Error"

\* HealthText with the bug of appending the latency to every status
HealthTextAlways(h, l) ==
    LET name == CASE h = "Healthy" -> "<U+2665> Healthy"
                  [] h = "Degraded" -> "<U+25D0> Degraded"
                  [] h = "Unhealthy" -> "<U+2715> Unhealthy"
                  [] h = "Unknown" -> "? Unknown"
    IN  IF l # None THEN name \o " (" \o ToString(l[1]) \o "ms)" ELSE name

HealthText(h, l) ==
    CASE h = "Healthy" ->
            IF l # None THEN "<U+2665> Healthy (" \o ToString(l[1]) \o "ms)"
            ELSE "<U+2665> Healthy"
      [] h = "Degraded" ->
            IF l # None THEN "<U+25D0> Degraded (" \o ToString(l[1]) \o "ms)"
            ELSE "<U+25D0> Degraded"
      [] h = "Unhealthy" -> "<U+2715> Unhealthy"
      [] h = "Unknown" -> "? Unknown"

\* UsageText with the bug of testing the input counter instead of the total
UsageTextByInput(u) ==
    IF u.input_tokens > 0
    THEN "Tokens: " \o format_tokens(u.total_tokens)
         \o " (<U+2193>" \o format_tokens(u.input_tokens)
         \o " <U+2191>" \o format_tokens(u.output_tokens) \o ")"
    ELSE "Tokens: <U+2014>"

UsageText(u) ==
    IF u.total_tokens > 0
    THEN "Tokens: " \o format_tokens(u.total_tokens)
         \o " (<U+2193>" \o format_tokens(u.input_tokens)
         \o " <U+2191>" \o format_tokens(u.output_tokens) \o ")"
    ELSE "Tokens: <U+2014>"

\* MenuItem::with_id(app, id, text, enabled, accelerator)
MenuItem(id, text, enabled, accelerator) ==
    [id |-> id, text |-> text, enabled |-> enabled, accelerator |-> accelerator]

Separator == MenuItem("", "", FALSE, "")

\* the menu build_tray_menu returns when no item and no build fails
build_tray_menu(s, u, h, l) ==
    << MenuItem("status", StatusText(s), FALSE, ""),
       MenuItem("health", HealthText(h, l), FALSE, ""),
       MenuItem("usage", UsageText(u), FALSE, ""),
       Separator,
       MenuItem("new_chat", "New Chat", TRUE, ""),
       Separator,
       MenuItem("show", "Show Clawdis", TRUE, ""),
       MenuItem("settings", "Settings...", TRUE, "CmdOrCtrl+,"),
       Separator,
       MenuItem("quit", "Quit Clawdis", TRUE, "CmdOrCtrl+Q") >>

\* Tooltip with the bug of one text for Connecting and Disconnected
TooltipMerged(s) ==
    CASE s = "Connected" -> "Clawdis - Connected"
      [] s = "Connecting" -> "Clawdis - Disconnected"
      [] s = "Disconnected" -> "Clawdis - Disconnected"
      [] s = "Error" -> "Clawdis - Connection Error"

\* `let tooltip = match &status` of rebuild_tray_menu
Tooltip(s) ==
    CASE s = "Connected" -> "Clawdis - Connected"
      [] s = "Connecting" -> "Clawdis - Connecting..."
      [] s = "Disconnected" -> "Clawdis - Disconnected"
      [] s = "Error" -> "Clawdis - Connection Error"

-----------------------------------------------------------------------------
(* Threads, mutexes and the arguments the commands are invoked with *)

\* the thread that runs the setup hook, and with it create_tray
Main == 0

\* the threads that run the update commands
Callers == {1, 2}

Mutexes == {"tray", "status", "usage", "health", "latency"}

\* FieldMutex with one mutex for the whole state
OneMutex(field) == "status"

\* the mutex that guards a field of TrayState: one Mutex per field
FieldMutex(field) == field

StatusArgs == {"Connected", "Error"}

UsageArgs == {TokenUsage(1200, 300, 1500), DefaultUsage}

HealthArgs == {<<"Healthy", Some(42)>>}

Commands == {"set_tray_status", "set_tray_usage", "set_tray_health"}

\* a thread that runs no command
NoReq ==
    [op |-> "none", status |-> "Disconnected", usage |-> DefaultUsage,
     health |-> "Unknown", latency |-> None]

\* the locals status, usage, health, latency of rebuild_tray_menu, not yet
\* read; with them, of the field the command writes: the number of the
\* command's write among the writes of the field, and who made the write, and
\* which it was, that the rebuild read
NoSnap ==
    [status |-> "Disconnected", usage |-> DefaultUsage, health |-> "Unknown",
     latency |-> None, wrote |-> 0, seen |-> [by |-> "none", n |-> 0]]

\* the outcome of a command: its result, what it published to the tray icon
\* (set_tooltip, set_menu), whether that changed what the icon shows, which
\* step failed, and whether it found the tray handle
NoRet ==
    [result |-> "none", published |-> {}, changed |-> FALSE,
     failed |-> "none", tray |-> "unseen"]

\* no tray icon exists yet
NoIcon == [menu |-> << >>, tooltip |-> ""]

\* the history of a run: how often each command was invoked; the commands
\* an awaiting frontend invoked, in order; of the command it invoked last,
\* the request, whether the one before was the same request, and the store
\* and the icon as they were when it was invoked; for each field the
\* function that wrote it last, the value it was given to write and the
\* number of writes so far; whether a tray operation has failed
NoHist ==
    [calls |-> [c \in Commands |-> 0],
     log |-> << >>,
     prev |-> NoReq,
     repeat |-> FALSE,
     mark |-> << >>,
     last |-> [status |-> [by |-> "default", arg |-> "Disconnected", n |-> 0],
               usage |-> [by |-> "default", arg |-> DefaultUsage, n |-> 0],
               health |-> [by |-> "default", arg |-> "Unknown", n |-> 0],
               latency |-> [by |-> "default", arg |-> None, n |-> 0]],
     failed |-> FALSE]

\* `*guard = value` of a field that is one value
Assign(old, new) == new

\* AssignUsage with the bug of adding the counters to those stored
AssignUsageAdd(old, new) ==
    [input_tokens |-> old.input_tokens + new.input_tokens,
     output_tokens |-> old.output_tokens + new.output_tokens,
     total_tokens |-> old.total_tokens + new.total_tokens]

\* AssignUsage with the bug of replacing the total alone
AssignUsageTotal(old, new) == [old EXCEPT !.total_tokens = new.total_tokens]

\* `*state.usage.lock().unwrap() = usage`: the whole struct is replaced
AssignUsage(old, new) == new

\* the ids of the menu events: the seven items of the menu and one more
MenuIds ==
    {"status", "health", "usage", "new_chat", "show", "settings", "quit",
     "other"}

\* TrayIconEvent: clicks with their button and button state, and the events
\* that have neither
TrayIconEvents ==
    {[kind |-> "Click", button |-> "Left", button_state |-> "Up"],
     [kind |-> "Click", button |-> "Left", button_state |-> "Down"],
     [kind |-> "Click", button |-> "Right", button_state |-> "Up"],
     [kind |-> "DoubleClick", button |-> "Left", button_state |-> ""],
     [kind |-> "Enter", button |-> "", button_state |-> ""]}

\* the webview window "main": it does not exist, or it exists hidden or
\* visible, with or without the focus
Windows ==
    {[window |-> "absent", focused |-> FALSE],
     [window |-> "hidden", focused |-> FALSE],
     [window |-> "visible", focused |-> FALSE],
     [window |-> "visible", focused |-> TRUE]}

\* no event handled yet
NoEvent == [event |-> "none", found |-> FALSE, ops |-> << >>, emitted |-> ""]

\* the window, whether app.exit was called, and of the event handled last:
\* what it was, whether get_webview_window found the window, the calls made
\* on the window and the signal that reached it
NoUi ==
    [window |-> "absent", focused |-> FALSE, exited |-> FALSE,
     last |-> NoEvent]

-----------------------------------------------------------------------------
(* The initial state: TrayState::default(), managed before setup runs *)

\* no presenter function is applied on its own
Idle ==
    /\ call = << >>
    /\ out = << >>

Constructed ==
    /\ tray = FALSE
    /\ status = "Disconnected"
    /\ usage = DefaultUsage
    /\ health = "Unknown"
    /\ latency = None
    /\ mutex = [m \in Mutexes |-> {}]
    /\ shown = NoIcon
    /\ setup = "start"
    /\ pc = [p \in Callers |-> "idle"]
    /\ req = [p \in Callers |-> NoReq]
    /\ snap = [p \in Callers |-> NoSnap]
    /\ ret = [p \in Callers |-> NoRet]
    /\ hist = NoHist
    /\ ui = NoUi

Init == Constructed /\ Idle

\* a failed setup makes run() panic, and app.exit(0) ends the process
Running == setup # "failed" /\ ~ui.exited

Acquire(t, m) ==
    /\ mutex[m] = {}
    /\ mutex' = [mutex EXCEPT ![m] = {t}]

Release(t, m) ==
    mutex' = [mutex EXCEPT ![m] = mutex[m] \ {t}]

Goto(p, next) == pc' = [pc EXCEPT ![p] = next]

-----------------------------------------------------------------------------
(* create_tray, run by the setup hook *)

\* lines 139-144: the default menu is built
create_tray_menu ==
    /\ setup = "start"
    /\ \/ setup' = "builder"
       \/ setup' = "failed"
    /\ UNCHANGED <<storeVars, mutex, shown, pc, req, snap, ret, hist, call, out, ui>>

\* lines 150-194: the tray icon is built with the default menu and tooltip
create_tray_icon ==
    /\ setup = "builder"
    /\ \/ /\ setup' = "tray_lock"
          /\ shown' = [menu |-> build_tray_menu("Disconnected", DefaultUsage,
                                                "Unknown", None),
                       tooltip |-> "Clawdis - Disconnected"]
       \/ /\ setup' = "failed"
          /\ UNCHANGED shown
    /\ UNCHANGED <<storeVars, mutex, pc, req, snap, ret, hist, call, out, ui>>

\* line 198: state.tray.lock()
create_tray_lock_tray ==
    /\ setup = "tray_lock"
    /\ Acquire(Main, "tray")
    /\ setup' = "tray_store"
    /\ UNCHANGED <<storeVars, shown, pc, req, snap, ret, hist, call, out, ui>>

\* line 198: `= Some(tray)`, and the guard is dropped
create_tray_store_tray ==
    /\ setup = "tray_store"
    /\ tray' = TRUE
    /\ Release(Main, "tray")
    /\ setup' = "status_lock"
    /\ UNCHANGED <<status, usage, health, latency, shown, pc, req, snap, ret,
                   hist, call, out, ui>>

\* line 199: state.status.lock()
create_tray_lock_status ==
    /\ setup = "status_lock"
    /\ Acquire(Main, FieldMutex("status"))
    /\ setup' = "status_store"
    /\ UNCHANGED <<storeVars, shown, pc, req, snap, ret, hist, call, out, ui>>

\* line 199: `= status`, the local Disconnected, and the guard is dropped
create_tray_store_status ==
    /\ setup = "status_store"
    /\ status' = Assign(status, "Disconnected")
    /\ Release(Main, FieldMutex("status"))
    /\ setup' = "done"
    /\ hist' = [hist EXCEPT
                   !.last.status = [by |-> "create_tray", arg |-> "Disconnected",
                                    n |-> @.n + 1]]
    /\ UNCHANGED <<tray, usage, health, latency, shown, pc, req, snap, ret,
                   call, out, ui>>

create_tray ==
    \/ create_tray_menu
    \/ create_tray_icon
    \/ create_tray_lock_tray
    \/ create_tray_store_tray
    \/ create_tray_lock_status
    \/ create_tray_store_status

-----------------------------------------------------------------------------
(* The update commands: each is invoked with an argument, writes its field  *)
(* and calls rebuild_tray_menu                                              *)

AllIdle == \A p \in Callers : pc[p] = "idle"

\* the number of commands invoked so far
Calls ==
    hist.calls["set_tray_status"] + hist.calls["set_tray_usage"]
        + hist.calls["set_tray_health"]

\* the commands run on the threads of the async runtime: an invoked command
\* is taken by the first idle thread
Takes(p) ==
    /\ pc[p] = "idle"
    /\ \A q \in Callers : q < p => pc[q] # "idle"

\* the command `op` starts on thread p with argument r and goes to its first
\* statement
Invoke(p, r, first) ==
    /\ Running
    /\ Takes(p)
    /\ req' = [req EXCEPT ![p] = r]
    /\ ret' = [ret EXCEPT ![p] = NoRet]
    /\ Goto(p, first)
    /\ UNCHANGED <<storeVars, mutex, shown, setup, snap, call, out, ui>>

call_set_tray_status(p) ==
    \E s \in StatusArgs :
        Invoke(p, [NoReq EXCEPT !.op = "set_tray_status", !.status = s],
               "status_lock")

call_set_tray_usage(p) ==
    \E u \in UsageArgs :
        Invoke(p, [NoReq EXCEPT !.op = "set_tray_usage", !.usage = u],
               "usage_lock")

call_set_tray_health(p) ==
    \E h \in HealthArgs :
        Invoke(p, [NoReq EXCEPT !.op = "set_tray_health",
                                !.health = h[1], !.latency = h[2]],
               "health_lock")

\* the frontend invokes the commands at any time, also while others run and
\* while setup runs
Counted(op) == [hist EXCEPT !.calls[op] = @ + 1]

invoke_set_tray_status(p) ==
    /\ Calls < MaxCalls
    /\ call_set_tray_status(p)
    /\ hist' = Counted("set_tray_status")

invoke_set_tray_usage(p) ==
    /\ Calls < MaxCalls
    /\ call_set_tray_usage(p)
    /\ hist' = Counted("set_tray_usage")

invoke_set_tray_health(p) ==
    /\ Calls < MaxCalls
    /\ call_set_tray_health(p)
    /\ hist' = Counted("set_tray_health")

\* the store and the icon
Shot ==
    [tray |-> tray, status |-> status, usage |-> usage, health |-> health,
     latency |-> latency, shown |-> shown]

Awaited(p, op) ==
    [Counted(op) EXCEPT !.log = Append(@, op),
                        !.prev = req'[p],
                        !.repeat = (req'[p] = hist.prev),
                        !.mark = <<Shot>>]

\* a frontend that invokes a command only when the one before it has returned
await_set_tray_status(p) ==
    /\ AllIdle
    /\ Calls < MaxAwaited
    /\ call_set_tray_status(p)
    /\ hist' = Awaited(p, "set_tray_status")

await_set_tray_usage(p) ==
    /\ AllIdle
    /\ Calls < MaxAwaited
    /\ call_set_tray_usage(p)
    /\ hist' = Awaited(p, "set_tray_usage")

await_set_tray_health(p) ==
    /\ AllIdle
    /\ Calls < MaxAwaited
    /\ call_set_tray_health(p)
    /\ hist' = Awaited(p, "set_tray_health")

\* the mutex a thread at a `.lock()` waits for, and where it goes with it
LockAt ==
    [status_lock |-> <<FieldMutex("status"), "status_write">>,
     usage_lock |-> <<FieldMutex("usage"), "usage_write">>,
     health_lock |-> <<FieldMutex("health"), "health_write">>,
     latency_lock |-> <<FieldMutex("latency"), "latency_write">>,
     rb_status_lock |-> <<FieldMutex("status"), "rb_status">>,
     rb_usage_lock |-> <<FieldMutex("usage"), "rb_usage">>,
     rb_health_lock |-> <<FieldMutex("health"), "rb_health">>,
     rb_latency_lock |-> <<FieldMutex("latency"), "rb_latency">>,
     rb_tray_lock |-> <<"tray", "rb_tray">>]

\* `.lock().unwrap()`: the thread waits until the mutex is free and takes it
lock(p) ==
    /\ Running
    /\ pc[p] \in DOMAIN LockAt
    /\ Acquire(p, LockAt[pc[p]][1])
    /\ Goto(p, LockAt[pc[p]][2])
    /\ UNCHANGED <<storeVars, shown, setup, req, snap, ret, hist, call, out, ui>>

\* line 234: `*state.status.lock().unwrap() = status`
set_tray_status(p) ==
    /\ Running
    /\ pc[p] = "status_write"
    /\ status' = Assign(status, req[p].status)
    /\ Release(p, FieldMutex("status"))
    /\ hist' = [hist EXCEPT
                   !.last.status = [by |-> req[p].op, arg |-> req[p].status,
                                         n |-> @.n + 1]]
    /\ snap' = [snap EXCEPT ![p].wrote = hist'.last.status.n]
    /\ Goto(p, "rb_status_lock")
    /\ UNCHANGED <<tray, usage, health, latency, shown, setup, req, ret, call,
                   out, ui>>

\* line 241: `*state.usage.lock().unwrap() = usage`
set_tray_usage(p) ==
    /\ Running
    /\ pc[p] = "usage_write"
    /\ usage' = AssignUsage(usage, req[p].usage)
    /\ Release(p, FieldMutex("usage"))
    /\ hist' = [hist EXCEPT
                   !.last.usage = [by |-> req[p].op, arg |-> req[p].usage,
                                        n |-> @.n + 1]]
    /\ snap' = [snap EXCEPT ![p].wrote = hist'.last.usage.n]
    /\ Goto(p, "rb_status_lock")
    /\ UNCHANGED <<tray, status, health, latency, shown, setup, req, ret, call,
                   out, ui>>

\* set_tray_health_status with the bug of keeping the guard of the health
\* while the latency is locked and written
set_tray_health_status_hold(p) ==
    /\ Running
    /\ pc[p] = "health_write"
    /\ health' = Assign(health, req[p].health)
    /\ hist' = [hist EXCEPT
                   !.last.health = [by |-> req[p].op, arg |-> req[p].health,
                                    n |-> @.n + 1]]
    /\ Goto(p, "latency_lock")
    /\ UNCHANGED <<tray, status, usage, latency, mutex, shown, setup, req, snap,
                   ret, call, out, ui>>

\* line 256: `*state.health.lock().unwrap() = health.status`
set_tray_health_status(p) ==
    /\ Running
    /\ pc[p] = "health_write"
    /\ health' = Assign(health, req[p].health)
    /\ Release(p, FieldMutex("health"))
    /\ hist' = [hist EXCEPT
                   !.last.health = [by |-> req[p].op, arg |-> req[p].health,
                                         n |-> @.n + 1]]
    /\ Goto(p, "latency_lock")
    /\ UNCHANGED <<tray, status, usage, latency, shown, setup, req, snap, ret,
                   call, out, ui>>

\* line 257: `*state.latency.lock().unwrap() = health.latency`
set_tray_health_latency(p) ==
    /\ Running
    /\ pc[p] = "latency_write"
    /\ latency' = Assign(latency, req[p].latency)
    /\ Release(p, FieldMutex("latency"))
    /\ hist' = [hist EXCEPT
                   !.last.latency = [by |-> req[p].op, arg |-> req[p].latency,
                                          n |-> @.n + 1]]
    /\ Goto(p, "rb_status_lock")
    /\ UNCHANGED <<tray, status, usage, health, shown, setup, req, snap, ret,
                   call, out, ui>>

-----------------------------------------------------------------------------
(* rebuild_tray_menu, called by each command after its write *)

\* the command returns: its locals are dropped
Return(p, result, outcome) ==
    /\ ret' = [ret EXCEPT ![p] = [outcome EXCEPT !.result = result]]
    /\ req' = [req EXCEPT ![p] = NoReq]
    /\ snap' = [snap EXCEPT ![p] = NoSnap]
    /\ Goto(p, "idle")

\* Fail with the bug of running the rebuild again after a failure
FailRetry(p, step) ==
    /\ ret' = [ret EXCEPT ![p].failed = step]
    /\ snap' = [snap EXCEPT ![p] = NoSnap]
    /\ Goto(p, "rb_status_lock")
    /\ hist' = [hist EXCEPT !.failed = TRUE]
    /\ UNCHANGED req

\* `.map_err(|e| e.to_string())?`: the failure of `step` is returned as Err
Fail(p, step) ==
    /\ Return(p, "Err", [ret[p] EXCEPT !.failed = step])
    /\ hist' = [hist EXCEPT !.failed = TRUE]

\* line 206: `let status = state.status.lock().unwrap().clone()`
rebuild_read_status(p) ==
    /\ Running
    /\ pc[p] = "rb_status"
    /\ snap' = [snap EXCEPT
                   ![p].status = status,
                   ![p].seen = IF req[p].op = "set_tray_status"
                               THEN [by |-> hist.last.status.by,
                                     n |-> hist.last.status.n]
                               ELSE @]
    /\ Release(p, FieldMutex("status"))
    /\ Goto(p, "rb_usage_lock")
    /\ UNCHANGED <<storeVars, shown, setup, req, ret, hist, call, out, ui>>

\* line 207: `let usage = state.usage.lock().unwrap().clone()`
rebuild_read_usage(p) ==
    /\ Running
    /\ pc[p] = "rb_usage"
    /\ snap' = [snap EXCEPT
                   ![p].usage = usage,
                   ![p].seen = IF req[p].op = "set_tray_usage"
                               THEN [by |-> hist.last.usage.by,
                                     n |-> hist.last.usage.n]
                               ELSE @]
    /\ Release(p, FieldMutex("usage"))
    /\ Goto(p, "rb_health_lock")
    /\ UNCHANGED <<storeVars, shown, setup, req, ret, hist, call, out, ui>>

\* rebuild_read_health with the bug of not reading the field
rebuild_keep_health(p) ==
    /\ Running
    /\ pc[p] = "rb_health"
    /\ Release(p, FieldMutex("health"))
    /\ Goto(p, "rb_latency_lock")
    /\ UNCHANGED <<storeVars, shown, setup, req, snap, ret, hist, call, out, ui>>

\* line 208: `let health = state.health.lock().unwrap().clone()`
rebuild_read_health(p) ==
    /\ Running
    /\ pc[p] = "rb_health"
    /\ snap' = [snap EXCEPT ![p].health = health]
    /\ Release(p, FieldMutex("health"))
    /\ Goto(p, "rb_latency_lock")
    /\ UNCHANGED <<storeVars, shown, setup, req, ret, hist, call, out, ui>>

\* rebuild_read_latency with the bug of keeping the guard of the latency
rebuild_read_latency_hold(p) ==
    /\ Running
    /\ pc[p] = "rb_latency"
    /\ snap' = [snap EXCEPT ![p].latency = latency]
    /\ Goto(p, "rb_build")
    /\ UNCHANGED <<storeVars, mutex, shown, setup, req, ret, hist, call, out,
                   ui>>

\* line 209: `let latency = *state.latency.lock().unwrap()`
rebuild_read_latency(p) ==
    /\ Running
    /\ pc[p] = "rb_latency"
    /\ snap' = [snap EXCEPT ![p].latency = latency]
    /\ Release(p, FieldMutex("latency"))
    /\ Goto(p, "rb_build")
    /\ UNCHANGED <<storeVars, shown, setup, req, ret, hist, call, out, ui>>

\* line 220: build_tray_menu(...)?: the menu is built from the locals, or a
\* menu item or the build fails
rebuild_build_menu(p) ==
    /\ Running
    /\ pc[p] = "rb_build"
    /\ \/ /\ Goto(p, "rb_tray_lock")
          /\ UNCHANGED <<req, snap, ret, hist>>
       \/ Fail(p, "build_tray_menu")
    /\ UNCHANGED <<storeVars, mutex, shown, setup, call, out, ui>>

\* rebuild_no_tray with the bug of reporting the missing handle as an error
rebuild_no_tray_err(p) ==
    /\ Running
    /\ pc[p] = "rb_tray"
    /\ ~tray
    /\ Release(p, "tray")
    /\ Return(p, "Err", [ret[p] EXCEPT !.tray = "absent"])
    /\ UNCHANGED <<storeVars, shown, setup, hist, call, out, ui>>

\* line 223: the handle is None: nothing is published, the guard is dropped
\* and Ok(()) is returned
rebuild_no_tray(p) ==
    /\ Running
    /\ pc[p] = "rb_tray"
    /\ ~tray
    /\ Release(p, "tray")
    /\ Return(p, "Ok", [ret[p] EXCEPT !.tray = "absent"])
    /\ UNCHANGED <<storeVars, shown, setup, hist, call, out, ui>>

\* rebuild_set_tooltip with the bug of dropping the guard of the tray handle
\* between set_tooltip and set_menu
rebuild_set_tooltip_unlock(p) ==
    /\ Running
    /\ pc[p] = "rb_tray"
    /\ tray
    /\ Release(p, "tray")
    /\ \/ /\ shown' = [shown EXCEPT !.tooltip = Tooltip(snap[p].status)]
          /\ ret' = [ret EXCEPT ![p].tray = "present",
                                ![p].published = @ \cup {"tooltip"},
                                ![p].changed = @ \/ shown' # shown]
          /\ Goto(p, "rb_set_menu")
          /\ UNCHANGED <<req, snap, hist>>
       \/ /\ Fail(p, "set_tooltip")
          /\ UNCHANGED shown
    /\ UNCHANGED <<storeVars, setup, call, out, ui>>

\* lines 223-224: the handle is Some: tray.set_tooltip(Some(tooltip))?
rebuild_set_tooltip(p) ==
    /\ Running
    /\ pc[p] = "rb_tray"
    /\ tray
    /\ \/ /\ shown' = [shown EXCEPT !.tooltip = Tooltip(snap[p].status)]
          /\ ret' = [ret EXCEPT ![p].tray = "present",
                                ![p].published = @ \cup {"tooltip"},
                                ![p].changed = @ \/ shown' # shown]
          /\ Goto(p, "rb_set_menu")
          /\ UNCHANGED <<mutex, req, snap, hist>>
       \/ /\ Release(p, "tray")
          /\ Fail(p, "set_tooltip")
          /\ UNCHANGED shown
    /\ UNCHANGED <<storeVars, setup, call, out, ui>>

\* line 225: tray.set_menu(Some(menu))?, then the guard is dropped and Ok(())
\* is returned
rebuild_set_menu(p) ==
    /\ Running
    /\ pc[p] = "rb_set_menu"
    /\ Release(p, "tray")
    /\ \/ /\ shown' = [shown EXCEPT
                          !.menu = build_tray_menu(snap[p].status, snap[p].usage,
                                       snap[p].health, snap[p].latency)]
          /\ Return(p, "Ok", [ret[p] EXCEPT !.published = @ \cup {"menu"},
                                            !.changed = @ \/ shown' # shown])
          /\ UNCHANGED hist
       \/ /\ Fail(p, "set_menu")
          /\ UNCHANGED shown
    /\ UNCHANGED <<storeVars, setup, call, out, ui>>

-----------------------------------------------------------------------------
(* The program: setup and the command threads *)

\* a step of a command running on thread p, but for the one that finds no
\* tray handle
Step(p) ==
    \/ lock(p)
    \/ set_tray_status(p)
    \/ set_tray_usage(p)
    \/ set_tray_health_status(p)
    \/ set_tray_health_latency(p)
    \/ rebuild_read_status(p)
    \/ rebuild_read_usage(p)
    \/ rebuild_read_health(p)
    \/ rebuild_read_latency(p)
    \/ rebuild_build_menu(p)
    \/ rebuild_set_tooltip(p)
    \/ rebuild_set_menu(p)

Next ==
    \/ create_tray
    \/ \E p \in Callers :
          \/ invoke_set_tray_status(p)
          \/ invoke_set_tray_usage(p)
          \/ invoke_set_tray_health(p)
          \/ rebuild_no_tray(p)
          \/ Step(p)

Spec == Init /\ [][Next]_vars

\* the scheduler lets the setup thread and every thread that runs a command
\* take its next step when it can: a thread at a lock() gets the mutex once
\* it stays free
Fairness ==
    /\ WF_vars(create_tray)
    /\ \A p \in Callers : WF_vars(rebuild_no_tray(p) \/ Step(p))

\* the commands as the frontend invokes them when only their progress is of
\* interest: each with one argument
start_set_tray_status(p) ==
    /\ Calls < MaxCalls
    /\ Invoke(p, [NoReq EXCEPT !.op = "set_tray_status", !.status = "Connected"],
              "status_lock")
    /\ hist' = Counted("set_tray_status")

start_set_tray_usage(p) ==
    /\ Calls < MaxCalls
    /\ Invoke(p, [NoReq EXCEPT !.op = "set_tray_usage",
                               !.usage = TokenUsage(1200, 300, 1500)],
              "usage_lock")
    /\ hist' = Counted("set_tray_usage")

start_set_tray_health(p) ==
    /\ Calls < MaxCalls
    /\ Invoke(p, [NoReq EXCEPT !.op = "set_tray_health", !.health = "Healthy",
                               !.latency = Some(42)],
              "health_lock")
    /\ hist' = Counted("set_tray_health")

NextFair ==
    \/ create_tray
    \/ \E p \in Callers :
          \/ start_set_tray_status(p)
          \/ start_set_tray_usage(p)
          \/ start_set_tray_health(p)
          \/ rebuild_no_tray(p)
          \/ Step(p)

\* setup and the commands under a fair scheduler
SpecFair == Init /\ [][NextFair]_vars /\ Fairness

\* The program once setup has succeeded and before any command: create_tray
\* has built the icon, stored the handle and written the status
Ready ==
    /\ tray = TRUE
    /\ status = "Disconnected"
    /\ usage = DefaultUsage
    /\ health = "Unknown"
    /\ latency = None
    /\ mutex = [m \in Mutexes |-> {}]
    /\ shown = [menu |-> build_tray_menu("Disconnected", DefaultUsage,
                                         "Unknown", None),
                tooltip |-> "Clawdis - Disconnected"]
    /\ setup = "done"
    /\ pc = [p \in Callers |-> "idle"]
    /\ req = [p \in Callers |-> NoReq]
    /\ snap = [p \in Callers |-> NoSnap]
    /\ ret = [p \in Callers |-> NoRet]
    /\ hist = [NoHist EXCEPT
                  !.last.status = [by |-> "create_tray", arg |-> "Disconnected",
                                   n |-> 1]]
    /\ Idle

InitReady == Ready /\ ui = NoUi

NextAwaited ==
    \E p \in Callers :
        \/ await_set_tray_status(p)
        \/ await_set_tray_usage(p)
        \/ await_set_tray_health(p)
        \/ Step(p)

\* the commands invoked one after another, after setup
SpecAwaited == InitReady /\ [][NextAwaited]_vars

-----------------------------------------------------------------------------
(* The handlers create_tray registers on the tray icon: on_menu_event and   *)
(* on_tray_icon_event. They run once setup is done and the icon exists.     *)

\* window.show(), its result dropped by `let _ =`: the window is visible, or
\* the call failed
window_show(w) == {[w EXCEPT !.window = "visible"], w}

\* window.set_focus(), its result dropped by `let _ =`
window_set_focus(w) == {[w EXCEPT !.focused = TRUE], w}

\* window.emit(signal, ()), its result dropped by `let _ =`: the signal
\* reaches the window or it does not
window_emit(signal) == {signal, ""}

\* the window of the state
TheWindow == [window |-> ui.window, focused |-> ui.focused]

\* app.get_webview_window("main") is Some
WindowFound == ui.window # "absent"

\* a handler has run for `event`: what it left behind
Handled(event, ops, w, emitted, exited) ==
    ui' = [window |-> w.window, focused |-> w.focused, exited |-> exited,
           last |-> [event |-> event, found |-> WindowFound, ops |-> ops,
                     emitted |-> emitted]]

\* an event is delivered to a handler of the icon
Delivered ==
    /\ Running
    /\ setup = "done"
    /\ shown # NoIcon

\* on_menu_event with the bug of resetting the status on every menu event
on_menu_event_reset(id) ==
    /\ Delivered
    /\ status' = "Disconnected"
    /\ Handled(id, << >>, TheWindow, "", id = "quit")
    /\ UNCHANGED <<tray, usage, health, latency, threadVars, shown, snap, call,
                   out>>

\* lines 155-179: the closure given to on_menu_event
on_menu_event(id) ==
    /\ Delivered
    /\ CASE id = "new_chat" ->
               IF WindowFound
               THEN \E e \in window_emit("tray-new-chat") :
                        Handled(id, <<"emit">>, TheWindow, e, FALSE)
               ELSE Handled(id, << >>, TheWindow, "", FALSE)
         [] id = "show" ->
               IF WindowFound
               THEN \E w1 \in window_show(TheWindow) :
                        \E w2 \in window_set_focus(w1) :
                            Handled(id, <<"show", "set_focus">>, w2, "",
                                    FALSE)
               ELSE Handled(id, << >>, TheWindow, "", FALSE)
         [] id = "settings" ->
               IF WindowFound
               THEN \E e \in window_emit("tray-settings") :
                        Handled(id, <<"emit">>, TheWindow, e, FALSE)
               ELSE Handled(id, << >>, TheWindow, "", FALSE)
         [] id = "quit" -> Handled(id, << >>, TheWindow, "", TRUE)
         [] OTHER -> Handled(id, << >>, TheWindow, "", FALSE)
    /\ UNCHANGED <<storeVars, threadVars, shown, snap, call, out>>

\* on_tray_icon_event with the bug of showing the window without focusing it
on_tray_icon_event_show(event) ==
    /\ Delivered
    /\ IF event = [kind |-> "Click", button |-> "Left", button_state |-> "Up"]
          /\ WindowFound
       THEN \E w1 \in window_show(TheWindow) :
                Handled("click", <<"show">>, w1, "", FALSE)
       ELSE Handled(event.kind, << >>, TheWindow, "", FALSE)
    /\ UNCHANGED <<storeVars, threadVars, shown, snap, call, out>>

\* lines 180-193: the closure given to on_tray_icon_event; "click" is the
\* release of the left button
on_tray_icon_event(event) ==
    /\ Delivered
    /\ IF event.kind = "Click" /\ event.button = "Left"
          /\ event.button_state = "Up"
       THEN IF WindowFound
            THEN \E w1 \in window_show(TheWindow) :
                     \E w2 \in window_set_focus(w1) :
                         Handled("click", <<"show", "set_focus">>, w2,
                                 "", FALSE)
            ELSE Handled("click", << >>, TheWindow, "", FALSE)
       ELSE Handled(event.kind, << >>, TheWindow, "", FALSE)
    /\ UNCHANGED <<storeVars, threadVars, shown, snap, call, out>>

\* the program after setup, with the window in any of its states
InitEvents ==
    /\ Ready
    /\ ui \in {[NoUi EXCEPT !.window = w.window, !.focused = w.focused] :
                  w \in Windows}

NextEvents ==
    \/ \E id \in MenuIds : on_menu_event(id)
    \/ \E event \in TrayIconEvents : on_tray_icon_event(event)
    \/ \E p \in Callers :
          \/ Calls < MaxEventCalls /\ await_set_tray_status(p)
          \/ Calls < MaxEventCalls /\ await_set_tray_usage(p)
          \/ Calls < MaxEventCalls /\ await_set_tray_health(p)
          \/ Step(p)

\* the commands invoked one after another while the user clicks on the icon
\* and in its menu
SpecEvents == InitEvents /\ [][NextEvents]_vars

-----------------------------------------------------------------------------
(* The presenter functions applied on their own, to arguments drawn from    *)
(* the sets below                                                           *)

TokenCounts ==
    LET bases == UNION {{k * 50, k * 50000, Million - k * 50} :
                           k \in 0 .. TokenSteps}
    IN  {b + d : b \in bases, d \in {-1, 0, 1}} \cap Nat

UsageSamples ==
    LET counts == {0, 999, 1500, 2500000}
    IN  {TokenUsage(i, o, t) : i \in counts, o \in counts, t \in counts}

LatencySamples == {None, Some(0), Some(42)}

InitFormat ==
    /\ Constructed
    /\ call \in {<<"format_tokens", n>> : n \in TokenCounts}
    /\ out = << >>

\* format_tokens(count)
apply_format_tokens ==
    /\ call # << >>
    /\ out = << >>
    /\ call[1] = "format_tokens"
    /\ out' = <<format_tokens(call[2])>>
    /\ UNCHANGED <<storeVars, threadVars, shown, snap, call, ui>>

SpecFormat == InitFormat /\ [][apply_format_tokens]_vars

InitRender ==
    /\ Constructed
    /\ call \in {<<"build_tray_menu", s, u, h, l>> :
                    s \in ConnectionStatus, u \in UsageSamples,
                    h \in HealthStatus, l \in LatencySamples}
    /\ out = << >>

\* lines 211-220 of rebuild_tray_menu: the tooltip and the menu of a snapshot
apply_build_tray_menu ==
    /\ call # << >>
    /\ out = << >>
    /\ call[1] = "build_tray_menu"
    /\ out' = <<[menu |-> build_tray_menu(call[2], call[3], call[4], call[5]),
                 tooltip |-> Tooltip(call[2])]>>
    /\ UNCHANGED <<storeVars, threadVars, shown, snap, call, ui>>

SpecRender == InitRender /\ [][apply_build_tray_menu]_vars

-----------------------------------------------------------------------------
(* Properties *)

\* the positions of rebuild_tray_menu at which its four locals have been read
SnapshotTaken == {"rb_build", "rb_tray_lock", "rb_tray", "rb_set_menu"}

InRebuild(p) ==
    pc[p] \in {"rb_status_lock", "rb_status", "rb_usage_lock", "rb_usage",
               "rb_health_lock", "rb_health", "rb_latency_lock", "rb_latency"}
              \cup SnapshotTaken

\* what render(status, usage, health, latency) gives: the menu and the tooltip
Render(s, u, h, l) ==
    [menu |-> build_tray_menu(s, u, h, l), tooltip |-> Tooltip(s)]

\* the field the command of thread p writes holds the command's argument,
\* when no other command of its kind was invoked and create_tray has not
\* written the status after it
TargetHolds(p) ==
    LET op == req[p].op
    IN  hist.calls[op] = 1 =>
            CASE op = "set_tray_status" ->
                    hist.last.status.by = op => status = req[p].status
              [] op = "set_tray_usage" -> usage = req[p].usage
              [] op = "set_tray_health" ->
                    health = req[p].health /\ latency = req[p].latency

\* C1: the health and the latency of every snapshot rebuild_tray_menu takes
\* are the initial pair (Unknown, None) or the pair passed to one
\* set_tray_health call, never the health of one write with the latency of
\* another.
C1_SnapshotHealthPair ==
    \A p \in Callers :
        pc[p] \in SnapshotTaken =>
            <<snap[p].health, snap[p].latency>>
                \in {<<"Unknown", None>>} \cup HealthArgs

OnceEach ==
    /\ Len(hist.log) = 3
    /\ {hist.log[i] : i \in 1 .. 3} = Commands

\* C3: after setup, once set_tray_status(s), set_tray_usage(u) and
\* set_tray_health(h, l) have run one after another, in whichever order, and
\* nothing failed, the store holds (s, u, h, l) and the icon shows
\* render(s, u, h, l).
C3_AnyOrder ==
    AllIdle /\ OnceEach /\ ~hist.failed =>
        /\ status = hist.last.status.arg
        /\ hist.last.status.by = "set_tray_status"
        /\ usage = hist.last.usage.arg
        /\ hist.last.usage.by = "set_tray_usage"
        /\ health = hist.last.health.arg
        /\ latency = hist.last.latency.arg
        /\ <<health, latency>> \in HealthArgs
        /\ shown = Render(status, usage, health, latency)

\* the three commands have run in the order usage, health, status
C3_Witness ==
    /\ AllIdle
    /\ hist.log = <<"set_tray_usage", "set_tray_health", "set_tray_status">>
    /\ ~hist.failed
    /\ status = "Error"
    /\ usage = TokenUsage(1200, 300, 1500)
    /\ shown = Render("Error", TokenUsage(1200, 300, 1500), "Healthy", Some(42))

\* C4: a command that returned an error has not changed what the icon shows,
\* neither the menu nor the tooltip.
C4_ErrorLeavesIcon ==
    \A p \in Callers : ret[p].result = "Err" => ~ret[p].changed

\* C5: the step of a command at which building the menu, set_tooltip or
\* set_menu fails returns the error: the command is over (no retry), the four
\* fields and the icon are as they were, and the field the command wrote
\* holds its argument.
C5_FailureReturns ==
    [][\A p \in Callers :
           ret[p].failed = "none" /\ ret'[p].failed # "none" =>
               /\ ret'[p].result = "Err"
               /\ pc'[p] = "idle"
               /\ UNCHANGED <<status, usage, health, latency, shown>>
               /\ TargetHolds(p)]_vars

\* set_tray_status has failed at set_menu and the status holds its argument
C5_Witness ==
    \E p \in Callers :
        /\ ret[p].result = "Err"
        /\ ret[p].failed = "set_menu"
        /\ hist.calls["set_tray_status"] = 1
        /\ hist.calls["set_tray_usage"] = 0
        /\ hist.calls["set_tray_health"] = 0
        /\ status \in StatusArgs

\* C6: a command that finds no tray handle has written its field, publishes
\* nothing and returns Ok.
C6_NoTrayIsOk ==
    \A p \in Callers :
        /\ pc[p] = "rb_tray" /\ ~tray =>
              TargetHolds(p) /\ ret[p].published = {}
        /\ ret[p].tray = "absent" =>
              /\ ret[p].result = "Ok"
              /\ ret[p].published = {}
              /\ ~ret[p].changed

\* set_tray_usage has returned Ok before the handle was stored: the usage is
\* written and no icon shows it
C6_Witness ==
    \E p \in Callers :
        /\ ret[p].tray = "absent"
        /\ ret[p].result = "Ok"
        /\ ~tray
        /\ hist.calls["set_tray_usage"] = 1
        /\ usage = TokenUsage(1200, 300, 1500)
        /\ shown = NoIcon

\* thread p waits at a lock() for a mutex that thread q holds
Blocked(p, q) ==
    /\ p # q
    /\ pc[p] \in DOMAIN LockAt
    /\ q \in mutex[LockAt[pc[p]][1]]

\* the mutexes thread q holds
Held(q) == {m \in Mutexes : q \in mutex[m]}

\* C7 as claimed: a command never waits for a mutex that a concurrent command
\* for another field holds.
C7_NeverBlocked ==
    \A p, q \in Callers : ~(Blocked(p, q) /\ req[p].op # req[q].op)

\* C7: the writes of two commands for different fields never wait for each
\* other; a command waits for a command for another field only when one of
\* the two is in rebuild_tray_menu, and then the holder holds that one mutex
\* and waits for none.
C7_BlockedByRebuildOnly ==
    \A p, q \in Callers :
        Blocked(p, q) /\ req[p].op # req[q].op =>
            /\ InRebuild(p) \/ InRebuild(q)
            /\ Held(q) = {LockAt[pc[p]][1]}
            /\ pc[q] \notin DOMAIN LockAt

\* set_tray_status waits to write the status while the rebuild of
\* set_tray_usage reads it
C7_Witness ==
    /\ pc[2] = "status_lock"
    /\ req[2].op = "set_tray_status"
    /\ pc[1] = "rb_status"
    /\ req[1].op = "set_tray_usage"
    /\ Blocked(2, 1)

Abs(x) == IF x < 0 THEN -x ELSE x

\* text is t/10 with one decimal and the suffix, for a t with
\* |t/10 - n/unit| * unit <= slack
OneDecimal(text, n, unit, suffix, slack) ==
    \E t \in (n \div (unit \div 10)) - 1 .. (n \div (unit \div 10)) + 1 :
        /\ t >= 0
        /\ text = ToString(t \div 10) \o "." \o ToString(t % 10) \o suffix
        /\ Abs(t * (unit \div 10) - n) <= slack

\* C8 as claimed: format_tokens(n) is n below 1000, n/1000 with one decimal
\* and "k" below 1000000, n/1000000 with one decimal and "M" from there, and
\* 999 gives "999", 1000 "1.0k", 999999 "999.0k", 1000000 "1.0M".
C8_AsClaimed ==
    out # << >> =>
        LET n == call[2]
            text == out[1]
        IN  /\ n < 1000 => text = ToString(n)
            /\ n >= 1000 /\ n < 1000000 =>
                  OneDecimal(text, n, 1000, "k", 99)
            /\ n >= 1000000 => OneDecimal(text, n, 1000000, "M", 99999)
            /\ n = 999 => text = "999"
            /\ n = 1000 => text = "1.0k"
            /\ n = 999999 => text = "999.0k"
            /\ n = 1000000 => text = "1.0M"

\* C8: format_tokens(n) is n below 1000, n/1000 rounded to the nearest tenth
\* with "k" below 1000000, n/1000000 rounded to the nearest tenth with "M"
\* from there; 999 gives "999", 1000 "1.0k", 999999 "1000.0k", 1000000 "1.0M".
C8_RoundsToNearest ==
    out # << >> =>
        LET n == call[2]
            text == out[1]
        IN  /\ n < 1000 => text = ToString(n)
            /\ n >= 1000 /\ n < 1000000 =>
                  OneDecimal(text, n, 1000, "k", 50)
            /\ n >= 1000000 => OneDecimal(text, n, 1000000, "M", 50000)
            /\ n = 999 => text = "999"
            /\ n = 1000 => text = "1.0k"
            /\ n = 999999 => text = "1000.0k"
            /\ n = 1000000 => text = "1.0M"

\* format_tokens(999999) has given "1000.0k"
C8_Witness ==
    call = <<"format_tokens", 999999>> /\ out = <<"1000.0k">>

\* the text of the menu item `id` of the menu built
ItemText(id) ==
    LET menu == out[1].menu
        i == CHOOSE j \in 1 .. Len(menu) : menu[j].id = id
    IN  menu[i].text

\* C9: the health line is the text of the status, followed by " (<ms>ms)"
\* exactly when the status is Healthy or Degraded and a latency is present.
C9_HealthLine ==
    out # << >> =>
        LET h == call[4]
            l == call[5]
            name == CASE h = "Healthy" -> "<U+2665> Healthy"
                      [] h = "Degraded" -> "<U+25D0> Degraded"
                      [] h = "Unhealthy" -> "<U+2715> Unhealthy"
                      [] h = "Unknown" -> "? Unknown"
            shows == h \in {"Healthy", "Degraded"} /\ l # None
        IN  /\ shows =>
                  ItemText("health") = name \o " (" \o ToString(l[1]) \o "ms)"
            /\ ~shows => ItemText("health") = name
            /\ h = "Healthy" /\ l = Some(42) =>
                  ItemText("health") = "<U+2665> Healthy (42ms)"
            /\ h = "Unhealthy" => ItemText("health") = "<U+2715> Unhealthy"

\* Unhealthy with a latency of 42 ms has given the line without the latency
C9_Witness ==
    /\ out # << >>
    /\ call[4] = "Unhealthy"
    /\ call[5] = Some(42)
    /\ ItemText("health") = "<U+2715> Unhealthy"

\* C10: the usage line is "Tokens: —" exactly when the total is 0, whatever
\* the input and output counters are, and the formatted triple otherwise.
C10_UsageLine ==
    out # << >> =>
        LET u == call[3]
            triple == "Tokens: " \o format_tokens(u.total_tokens)
                      \o " (<U+2193>" \o format_tokens(u.input_tokens)
                      \o " <U+2191>" \o format_tokens(u.output_tokens) \o ")"
        IN  /\ u.total_tokens = 0 <=> ItemText("usage") = "Tokens: <U+2014>"
            /\ u.total_tokens # 0 => ItemText("usage") = triple
            /\ u = DefaultUsage => ItemText("usage") = "Tokens: <U+2014>"

\* a total of 0 with the other counters set has given the dash
C10_Witness ==
    /\ out # << >>
    /\ call[3] = TokenUsage(1500, 999, 0)
    /\ ItemText("usage") = "Tokens: <U+2014>"

\* C11: the tooltip rebuild_tray_menu computes for a snapshot is the one fixed
\* text of the snapshot's connection status, whatever its usage, health and
\* latency are, and no other status has that text.
C11_TooltipByStatus ==
    out # << >> =>
        /\ \A s \in ConnectionStatus :
               out[1].tooltip = Tooltip(s) <=> s = call[2]
        /\ out[1].tooltip
               = CASE call[2] = "Connected" -> "Clawdis - Connected"
                   [] call[2] = "Connecting" -> "Clawdis - Connecting..."
                   [] call[2] = "Disconnected" -> "Clawdis - Disconnected"
                   [] call[2] = "Error" -> "Clawdis - Connection Error"

\* Connecting with a usage, Healthy and a latency has given the tooltip of
\* Connecting
C11_Witness ==
    /\ out # << >>
    /\ call[2] = "Connecting"
    /\ call[3] = TokenUsage(999, 1500, 2500000)
    /\ call[4] = "Healthy"
    /\ call[5] = Some(42)
    /\ out[1].tooltip = "Clawdis - Connecting..."

\* C12: a step of on_menu_event, for whichever id, or of on_tray_icon_event,
\* for whichever event, leaves the tray handle, the four fields, the menu and
\* the tooltip of the icon as they are, and starts, moves and fails no
\* command and no rebuild.
C12_EventsLeaveStore ==
    [][ui' # ui =>
           UNCHANGED <<tray, status, usage, health, latency, shown, mutex, pc,
                       req, snap, ret, hist>>]_vars

\* "quit" was handled after set_tray_status(Connected) had returned: the
\* store and the icon are as the command left them
C12_Witness ==
    /\ ui.last.event = "quit"
    /\ ui.exited
    /\ AllIdle
    /\ hist.calls["set_tray_status"] = 1
    /\ status = "Connected"
    /\ tray
    /\ shown = Render("Connected", DefaultUsage, "Unknown", None)

\* C13: after setup, when a command was invoked twice in succession with the
\* same argument, each awaited, and nothing has failed, the store and the
\* icon are, once the second has returned, as they were after the first.
C13_SecondCallChangesNothing ==
    AllIdle /\ hist.repeat /\ ~hist.failed /\ tray => <<Shot>> = hist.mark

\* set_tray_usage has run twice with the same usage, and the store and the
\* icon hold it
C13_Witness ==
    /\ AllIdle
    /\ hist.repeat
    /\ ~hist.failed
    /\ hist.prev.op = "set_tray_usage"
    /\ usage = TokenUsage(1200, 300, 1500)
    /\ shown = Render("Disconnected", usage, "Unknown", None)
    /\ <<Shot>> = hist.mark

\* C14: when new_chat, show, settings or the release of the left button on
\* the icon finds no window, the handler calls nothing on a window, no signal
\* is emitted, the window stays absent and unfocused and the program runs on;
\* when the window is found, the release of the left button makes the calls
\* of the "show" menu event, show then set_focus, and emits nothing.
C14_AbsentWindowNoOp ==
    /\ ui.last.event \in {"new_chat", "show", "settings", "click"}
           /\ ~ui.last.found =>
          /\ ui.last.ops = << >>
          /\ ui.last.emitted = ""
          /\ ui.window = "absent"
          /\ ~ui.focused
          /\ Running
    /\ ui.last.event \in {"show", "click"} /\ ui.last.found =>
          /\ ui.last.ops = <<"show", "set_focus">>
          /\ ui.last.emitted = ""
          /\ ui.window # "absent"
          /\ Running

\* the left button was released on the icon with the window hidden: the
\* window is visible and has the focus
C14_ClickShowsWindow ==
    /\ ui.last = [event |-> "click", found |-> TRUE,
                  ops |-> <<"show", "set_focus">>, emitted |-> ""]
    /\ ui.window = "visible"
    /\ ui.focused

\* new_chat was handled with no window: nothing was emitted
C14_Witness ==
    /\ ui.last = [event |-> "new_chat", found |-> FALSE, ops |-> << >>,
                  emitted |-> ""]
    /\ ui.window = "absent"

\* C15: whenever no command runs, the tray handle is stored and no tray
\* operation has failed, the icon shows the render of the four fields as they
\* are, also after commands that ran concurrently.
C15_QuiescentRender ==
    AllIdle /\ tray /\ ~hist.failed =>
        shown = Render(status, usage, health, latency)

\* the four fields of the state, as mutexes
FieldMutexes == {"status", "usage", "health", "latency"}

\* the mutex a command holds at a position: that of a field at the one write
\* or read of the field, that of the tray handle while it publishes
HeldAt(pos) ==
    CASE pos \in {"status_write", "rb_status"} -> {"status"}
      [] pos \in {"usage_write", "rb_usage"} -> {"usage"}
      [] pos \in {"health_write", "rb_health"} -> {"health"}
      [] pos \in {"latency_write", "rb_latency"} -> {"latency"}
      [] pos \in {"rb_tray", "rb_set_menu"} -> {"tray"}
      [] OTHER -> {}

\* C16: a thread holds the mutex of a field only at the one write or read of
\* that field: none while build_tray_menu runs, none while the tooltip and the
\* menu of the icon are replaced, and create_tray none while it builds its
\* menu and the icon.
C16_FieldLocksShort ==
    /\ \A p \in Callers :
           /\ Held(p) = HeldAt(pc[p])
           /\ pc[p] \in {"rb_build", "rb_tray_lock", "rb_tray", "rb_set_menu"} =>
                  Held(p) \cap FieldMutexes = {}
    /\ Held(Main) = CASE setup = "tray_store" -> {"tray"}
                      [] setup = "status_store" -> {"status"}
                      [] OTHER -> {}
    /\ setup \in {"start", "builder"} => Held(Main) = {}

\* one command replaces the menu of the icon while another writes the status
C16_Witness ==
    /\ pc[1] = "rb_set_menu"
    /\ Held(1) = {"tray"}
    /\ pc[2] = "status_write"
    /\ Held(2) = {"status"}

\* the positions of rebuild_tray_menu at which the status has been read
StatusRead ==
    {"rb_usage_lock", "rb_usage", "rb_health_lock", "rb_health",
     "rb_latency_lock", "rb_latency"} \cup SnapshotTaken

\* the positions of rebuild_tray_menu at which the usage has been read
UsageRead ==
    {"rb_health_lock", "rb_health", "rb_latency_lock", "rb_latency"}
        \cup SnapshotTaken

\* C17: the status in the snapshot of the rebuild of set_tray_status(s) is s,
\* read from the command's own write, or the status of a later write made by
\* a set_tray_status call; and likewise the usage in the snapshot of the
\* rebuild of set_tray_usage(u).
C17_OwnFieldNotOlder ==
    \A p \in Callers :
        /\ req[p].op = "set_tray_status" /\ pc[p] \in StatusRead =>
               /\ snap[p].seen.n >= snap[p].wrote
               /\ snap[p].seen.n = snap[p].wrote =>
                      snap[p].status = req[p].status
               /\ snap[p].seen.n > snap[p].wrote =>
                      snap[p].seen.by = "set_tray_status"
        /\ req[p].op = "set_tray_usage" /\ pc[p] \in UsageRead =>
               /\ snap[p].seen.n >= snap[p].wrote
               /\ snap[p].seen.n = snap[p].wrote =>
                      snap[p].usage = req[p].usage
               /\ snap[p].seen.n > snap[p].wrote =>
                      snap[p].seen.by = "set_tray_usage"

\* C18: the step that completes create_tray leaves the icon showing the
\* render of the four fields, and each field holding the value the last
\* command that wrote it was given, or its default when none has; also when
\* commands were invoked before or during setup.
C18_SetupShowsStore ==
    [][setup # "done" /\ setup' = "done" =>
           /\ shown' = Render(status', usage', health', latency')
           /\ status' = hist.last.status.arg
           /\ usage' = hist.last.usage.arg
           /\ health' = hist.last.health.arg
           /\ latency' = hist.last.latency.arg]_vars


\* the setup thread and the threads that run the commands
Threads == {Main} \cup Callers

\* C19: no thread ever holds two of the five mutexes; a thread that runs no
\* command holds none; and, the scheduler being fair, every command invoked
\* returns unless the process ends first: the frontend invoking finitely many
\* commands, from some point on none is running.
C19_ReturnsWithoutLocks ==
    /\ [](\A t \in Threads : Cardinality(Held(t)) <= 1)
    /\ [](\A p \in Callers : pc[p] = "idle" => Held(p) = {})
    /\ <>[](AllIdle \/ ~Running)

\* two commands have returned, one with Ok and one with an error, setup is
\* done and every mutex is free
C19_Witness ==
    /\ AllIdle
    /\ setup = "done"
    /\ ret[1].result = "Ok"
    /\ ret[2].result = "Err"
    /\ ret[2].failed = "set_tooltip"
    /\ \A m \in Mutexes : mutex[m] = {}

\* C20: whenever the mutex of the tray handle is free, an icon exists and no
\* tray operation has failed, the tooltip of the icon and the status line of
\* its menu are those of one connection status.
C20_TooltipMatchesMenu ==
    mutex["tray"] = {} /\ ~hist.failed /\ shown # NoIcon =>
        \E s \in ConnectionStatus :
            /\ shown.tooltip = Tooltip(s)
            /\ shown.menu[1].id = "status"
            /\ shown.menu[1].text = StatusText(s)

\* two rebuilds with different statuses have published one after the other:
\* the icon shows the tooltip and the status line of Error, the one published
\* last, while the store holds Connected
C20_Witness ==
    /\ AllIdle
    /\ ~hist.failed
    /\ hist.calls["set_tray_status"] = 2
    /\ status = "Connected"
    /\ shown.tooltip = "Clawdis - Connection Error"
    /\ shown.menu[1].text = "<U+2715> Connection Error"
    /\ mutex["tray"] = {}

====
